---- MODULE Spec2Model ----
(***************************************************************************)
(* Wallet-signature authentication of CertifiChain: the nonce route and    *)
(* the verify route of routes/auth.js over the prisma user table.          *)
(*                                                                         *)
(* Strings are sequences of one-character strings, so that toLowerCase,    *)
(* String.includes and the address format test are computed, not assumed.  *)
(***************************************************************************)
EXTENDS Integers, Sequences, FiniteSets, TLC

(* ------------------------------ bounds -------------------------------- *)

\* Number of hex digits of an address body (40 in ethers; scaled down).
HexLen == 2
\* generateNonce draws from 0..MaxNonce (0..999999 in the code; scaled down).
MaxNonce == 1
\* The clock runs from 0 to MaxTime.
MaxTime == 2
\* At most MaxWrites nonce writes are explored per identity record.
MaxWrites == 3
\* uploads a specification follows
MaxUploads == 1
\* connectDatabase is tried with 0..MaxRetries retries
MaxRetries == 3
\* at most MaxServing requests are being served at a time
MaxServing == 2

(* ------------------------------ strings ------------------------------- *)

LowerOf(c) ==
  CASE c = "A" -> "a"
    [] c = "B" -> "b"
    [] c = "F" -> "f"
    [] c = "X" -> "x"
    [] OTHER -> c

UpperOf(c) ==
  CASE c = "a" -> "A"
    [] c = "b" -> "B"
    [] c = "f" -> "F"
    [] c = "x" -> "X"
    [] OTHER -> c

\* A string left in the case it was given in.
toLowerCaseKept(s) == s
\* String.prototype.toLowerCase
toLowerCase(s) == [i \in 1..Len(s) |-> LowerOf(s[i])]

\* A test that finds every needle.
includesAnything(hay, needle) == TRUE
\* String.prototype.includes: needle occurs in hay as a contiguous substring
includes(hay, needle) ==
  \E i \in 0..(Len(hay) - Len(needle)) :
    \A j \in 1..Len(needle) : hay[i + j] = needle[j]

DigitChar(d) ==
  CASE d = 0 -> "0" [] d = 1 -> "1" [] d = 2 -> "2" [] d = 3 -> "3"
    [] d = 4 -> "4" [] d = 5 -> "5" [] d = 6 -> "6" [] d = 7 -> "7"
    [] d = 8 -> "8" [] d = 9 -> "9"

\* Number.prototype.toString (decimal)
RECURSIVE toString(_)
toString(n) == IF n < 10 THEN <<DigitChar(n)>>
               ELSE toString(n \div 10) \o <<DigitChar(n % 10)>>

\* Date.prototype.toISOString: the digits of the instant
toISOString(t) == toString(t)

(* ------------------------------ ethers -------------------------------- *)

HexChars == {"0", "1", "2", "3", "4", "5", "6", "7", "8", "9",
             "a", "b", "c", "d", "e", "f", "A", "B", "C", "D", "E", "F"}
HexLetters == {"a", "b", "c", "d", "e", "f", "A", "B", "C", "D", "E", "F"}

\* getChecksumAddress on a body: the case pattern the hash of the body fixes
\* (here: the letters at odd positions are upper case).
ChecksumBody(b) ==
  [i \in 1..Len(b) |-> IF i % 2 = 1 THEN UpperOf(LowerOf(b[i])) ELSE LowerOf(b[i])]

HasPrefix0x(s) == Len(s) >= 2 /\ s[1] = "0" /\ s[2] = "x"

BodyOf(s) == IF HasPrefix0x(s) THEN SubSeq(s, 3, Len(s)) ELSE s

MixedCase(b) ==
  /\ \E i \in 1..Len(b) : b[i] \in HexLetters /\ b[i] = UpperOf(b[i])
  /\ \E i \in 1..Len(b) : b[i] \in HexLetters /\ b[i] = LowerOf(b[i])

\* The format test alone, without the checksum of a mixed-case body.
isAddressAnyCase(s) ==
  LET b == BodyOf(s) IN
    /\ Len(b) = HexLen
    /\ \A i \in 1..Len(b) : b[i] \in HexChars

\* ethers.isAddress: /^(0x)?[0-9a-fA-F]{40}$/ and, for a mixed-case body,
\* a valid checksum.
isAddress(s) ==
  LET b == BodyOf(s) IN
    /\ Len(b) = HexLen
    /\ \A i \in 1..Len(b) : b[i] \in HexChars
    /\ (MixedCase(b) => b = ChecksumBody(b))

\* ethers.getAddress of an accepted string: "0x" and the checksummed body
getAddress(s) == <<"0", "x">> \o ChecksumBody(BodyOf(s))

Body(c) == [i \in 1..HexLen |-> c]

\* The wallet keys and the account address of each.
Keys == {"keyA", "keyB"}
AddressOfKey(k) == IF k = "keyA" THEN getAddress(Body("a")) ELSE getAddress(Body("b"))
\* What recovery yields for a signature made over another message.
UnrelatedAddress == getAddress(Body("f"))

(* ------------------------- requests and inputs ------------------------ *)

\* The address strings a client sends: the forms of one account address
\* that differ in letter case or prefix, and two that are no address.
AddrLower == <<"0", "x">> \o Body("a")
AddrUpper == <<"0", "x">> \o Body("A")
AddrChecksum == getAddress(Body("a"))
AddrBadChecksum ==
  <<"0", "x">> \o [i \in 1..HexLen |-> IF i % 2 = 1 THEN "a" ELSE "A"]
AddrUpperPrefix == <<"0", "X">> \o Body("A")
AddrNoPrefix == Body("a")
NotAnAddress == <<"n", "o", "t">>
Missing == <<>>

AddrForms == {AddrLower, AddrUpper, AddrChecksum, AddrBadChecksum,
              AddrUpperPrefix, AddrNoPrefix}
AddrInputs == AddrForms \cup {NotAnAddress, Missing}

\* The key whose account the address string names.
OwnerOf(a) == "keyA"

\* user.walletAddress values the routes can write
StoreKeys == {toLowerCase(a) : a \in {x \in AddrInputs : isAddress(x)}}

Times == 0..MaxTime
Null == -1
\* 24 * 60 * 60 * 1000 ms: the clock counts days.
Day == 1

\* Math.random(): r stands for the fraction r / RandomRes of [0, 1)
RandomRes == 2 * (MaxNonce + 1) + 1
Random == 0..(RandomRes - 1)

\* Math.ceil in the place of Math.floor.
CeilRandom(r) == (r * (MaxNonce + 1) + RandomRes - 1) \div RandomRes
\* Math.floor(Math.random() * 1000000), the 1000000 scaled to MaxNonce + 1
FloorRandom(r) == (r * (MaxNonce + 1)) \div RandomRes

\* generateNonce: Math.floor(Math.random() * 1000000).toString()
generateNonce(r) == toString(FloorRandom(r))
\* The integers generateNonce turns into strings.
Draws == {FloorRandom(r) : r \in Random}

\* The decimal strings of 0..MaxNonce
NonceValues == {toString(n) : n \in 0..MaxNonce}

\* The challenge text has the shape of the template of the nonce route;
\* a message is kept as the two values the template embeds.
NoMsg == [nonce |-> <<>>, ts |-> Null]
Msgs == [nonce : NonceValues, ts : Times]

\* `Connectez-vous ...\n\nNonce: ${nonce}\nTimestamp: ${new Date().toISOString()}`
\* `Sign this message to authenticate with CertifyWeb3. Nonce: ${nonce}`, the
\* text the browser builds: a message with a nonce and no timestamp
MessageText(m) ==
  IF m = NoMsg THEN <<>>
  ELSE IF m.ts = Null THEN <<"S", ":">> \o m.nonce
  ELSE <<"N", ":">> \o m.nonce \o <<"T", ":">> \o toISOString(m.ts)

\* A personal-sign signature: who signed which message, or a malformed blob.
NoSig == [form |-> "missing", signer |-> "none", msg |-> NoMsg]
BadSig == [form |-> "malformed", signer |-> "none", msg |-> NoMsg]
Sign(k, m) == [form |-> "ok", signer |-> k, msg |-> m]

\* ethers.verifyMessage(message, signature): throws on a malformed signature,
\* else recovers the signer's address when the signature is over this message
\* and an unrelated address when it is over another one.
verifyMessage(m, g) ==
  IF g.form # "ok" THEN [threw |-> TRUE, address |-> <<>>]
  ELSE IF g.msg = m THEN [threw |-> FALSE, address |-> AddressOfKey(g.signer)]
  ELSE [threw |-> FALSE, address |-> UnrelatedAddress]

\* A text that is no challenge of the nonce route.
OtherMsg == [nonce |-> <<>>, ts |-> 0]

Slots == {"r1", "r2"}

(* ------------------------------- state -------------------------------- *)

VARIABLES
  users,        \* prisma.user: walletAddress -> record, for the records that exist
  now,          \* the clock read by new Date() / Date.now()
  jwtOk,        \* jwt.sign accepts JWT_SECRET and JWT_EXPIRES_IN of this process
  inflight,     \* per request slot: a verify request between its read and its update
  resp,         \* the last response a route has sent
  challenge,    \* history: the message last issued per record, until the record is written again
  consumed,     \* history: the address and message of the last successful verify per record
  failedSince,  \* history: a verify failed for the record since its last nonce issue
  writes,       \* history: the number of nonce writes per record
  held,         \* history: per slot, the message of the request and the nonce write it read
  won,          \* history: per record, the successful verifies in order: the nonce write
                \* each had read, and whether that write was still the last one at its update
  expiresIn,    \* process.env.JWT_EXPIRES_IN when routes/auth.js was loaded
  client,       \* the browser: the position of authenticateUser and localStorage
  gate,         \* a request on its way through the middleware of a mount of index.js
  files,        \* prisma.fileUpload: the records that exist
  proc          \* the server process: its environment and how far index.js has run

code == <<users, now, jwtOk, inflight, resp>>
vars == <<users, now, jwtOk, inflight, resp, challenge, consumed, failedSince,
          writes, held, won, expiresIn, client, gate, files, proc>>

\* req.file when the request has no file part
NoFile == [mimetype |-> "none", ext |-> "none", buffer |-> <<>>]
\* The upload of a response that answers no upload request.
NoUpload == [file |-> NoFile, authenticated |-> FALSE, put |-> "none",
             ipfsHash |-> "null"]

NoToken == [walletAddress |-> <<>>, type |-> "none", timestamp |-> Null,
            iat |-> Null, exp |-> Null]

\* process.env.JWT_EXPIRES_IN: not set, or a time span
Unset == "unset"
EnvSpans == {Unset, "7d"}

\* const JWT_EXPIRES_IN = process.env.JWT_EXPIRES_IN || '24h'
DefaultSevenDays == IF expiresIn = Unset THEN "7d" ELSE expiresIn
JWT_EXPIRES_IN == IF expiresIn = Unset THEN "24h" ELSE expiresIn

\* jsonwebtoken: the length of a time span (ms), in days
SpanOf(span) == CASE span = "24h" -> Day [] span = "7d" -> 7 * Day

\* JavaScript values of the browser: undefined, the null localStorage.getItem
\* gives for an absent key, and a token string
Undefined == [kind |-> "undefined", token |-> NoToken]
NoItem == [kind |-> "null", token |-> NoToken]
Jwt(t) == [kind |-> "string", token |-> t]
\* the string localStorage.setItem stores for a value
StringOf(v) ==
  IF v = Undefined THEN [kind |-> "string 'undefined'", token |-> NoToken]
  ELSE v
\* obj[name] of JavaScript: undefined for a property the object has not
Property(obj, name) == IF name \in DOMAIN obj THEN obj[name] ELSE Undefined

\* The body of a verify request, before one is sent.
NoBody == [walletAddress |-> <<>>, signature |-> NoSig, message |-> NoMsg]
\* authenticateUser before it has run: its position, the data of the nonce
\* response, the message it signed, the signature, the body of the verify
\* request it sent, and localStorage 'auth_token'
ClientIdle == [pc |-> "idle", nonceResponse |-> NoMsg, message |-> NoMsg,
               signature |-> NoSig, sent |-> NoBody,
               authToken |-> NoItem]
\* no e-mail: null in a record, absent or empty in a request
NoEmail == << >>
NoUser == [walletAddress |-> <<>>, nonce |-> <<>>, isVerified |-> FALSE,
           lastLogin |-> Null, email |-> NoEmail, createdAt |-> Null]
Idle == [pc |-> "idle", walletAddress |-> <<>>, nonce |-> <<>>,
         class |-> "plain", email |-> NoEmail]
NotHeld == [msg |-> NoMsg, rv |-> 0]
NoUse == [walletAddress |-> <<>>, msg |-> NoMsg]

\* prisma.user.findUnique({ where: { walletAddress } })
findUnique(k) == IF k \in DOMAIN users THEN users[k] ELSE NoUser
\* A lookup that takes every result for a record.
FoundAlways(u) == TRUE
\* if (!user), negated
Found(u) == u # NoUser

\* The table with the record of k set to r.
Put(k, r) ==
  [x \in (DOMAIN users) \cup {k} |-> IF x = k THEN r ELSE users[x]]

\* An upsert that writes the record of the create branch in both cases.
upsertAsNew(k, nonce) ==
  Put(k, [walletAddress |-> k, nonce |-> nonce, isVerified |-> FALSE,
          lastLogin |-> Null, email |-> NoEmail, createdAt |-> now])
\* prisma.user.upsert of the nonce route: update { nonce } or create
upsert(k, nonce) ==
  IF k \in DOMAIN users
  THEN Put(k, [users[k] EXCEPT !.nonce = nonce])
  ELSE Put(k, [walletAddress |-> k, nonce |-> nonce, isVerified |-> FALSE,
               lastLogin |-> Null, email |-> NoEmail, createdAt |-> now])

\* An update that leaves the nonce of the record in place.
VerifyDataKeepingNonce(nonce) ==
  [isVerified |-> TRUE, lastLogin |-> now]
\* data of prisma.user.update in the verify route
VerifyData(nonce) ==
  [isVerified |-> TRUE, lastLogin |-> now, nonce |-> nonce]

\* prisma.user.update({ where: { walletAddress: k }, data })
update(k, data) ==
  Put(k, [f \in DOMAIN users[k] |->
            IF f \in DOMAIN data THEN data[f] ELSE users[k][f]])

\* generateAccessToken(walletAddress): the claims jwt.sign is given and the
\* iat and exp it adds for { expiresIn: JWT_EXPIRES_IN }
generateAccessToken(walletAddress) ==
  [walletAddress |-> walletAddress, type |-> "access", timestamp |-> now,
   iat |-> now, exp |-> now + SpanOf(JWT_EXPIRES_IN)]

\* How a verify request relates to the live challenge of the record it
\* names: the challenge signed by the owner of the address ("honest"), the
\* challenge signed by another key ("cross"), or anything else ("plain").
ClassOf(walletAddress, message, signature) ==
  IF /\ isAddress(walletAddress)
     /\ message # NoMsg
     /\ challenge[toLowerCase(walletAddress)] = message
     /\ signature.form = "ok"
     /\ signature.msg = message
  THEN IF signature.signer = OwnerOf(walletAddress) THEN "honest" ELSE "cross"
  ELSE "plain"

\* A response: its status and body, and the history of the request it
\* answers: the address string of the request, the store and library calls
\* the handler made, whether the handler changed the table, and how the
\* request related to the live challenge.
Response(op, walletAddress, status, error) ==
  [op |-> op, walletAddress |-> walletAddress, status |-> status,
   error |-> error, message |-> NoMsg, token |-> NoToken, user |-> NoUser,
   calls |-> <<>>, wrote |-> FALSE, class |-> "plain", upload |-> NoUpload,
   email |-> NoEmail]

\* The file table before the process started: temporary files, one of them
\* a week and a day old and one six days old, and a kept file.
OldUploads ==
  {[id |-> 1, mimetype |-> "image/png", size |-> 4, ipfsHash |-> "null",
    uploadedBy |-> <<>>, isTemporary |-> TRUE, createdAt |-> 0 - 8 * Day],
   [id |-> 2, mimetype |-> "image/png", size |-> 4, ipfsHash |-> "null",
    uploadedBy |-> <<>>, isTemporary |-> TRUE, createdAt |-> 0 - 6 * Day],
   [id |-> 3, mimetype |-> "image/png", size |-> 4, ipfsHash |-> "null",
    uploadedBy |-> <<>>, isTemporary |-> FALSE, createdAt |-> 0 - 8 * Day]}

\* No request is with the middleware.
GateIdle == [url |-> "none", token |-> "none", company |-> "none",
             chain |-> <<>>, passed |-> <<>>, at |-> "idle"]

\* process.env as index.js reads it: whether each variable is set
EnvAllSet == [JWT_SECRET |-> TRUE, DATABASE_URL |-> TRUE,
              WEB3_STORAGE_TOKEN |-> TRUE]
\* The process after index.js has run to the end: the database connected,
\* the routes mounted, the cleanup timer set and the server listening.
\* async function connectDatabase(retries = 3)
DefaultRetries == 3
\* The process when node starts index.js, connectDatabase to be called
\* with the given retries.
ProcStart(env, retries) ==
  [pc |-> "start", env |-> env, db |-> "none", routes |-> FALSE,
   timer |-> FALSE, handlers |-> FALSE, http |-> "none",
   retries |-> retries, i |-> 0, tries |-> <<>>, waits |-> <<>>,
   serving |-> 0, closed |-> FALSE, exit |-> Null]
ProcUp(env) ==
  [ProcStart(env, DefaultRetries) EXCEPT
     !.pc = "up", !.db = "connected", !.routes = TRUE, !.timer = TRUE,
     !.handlers = TRUE, !.http = "listening", !.tries = <<"ok">>]

\* The state of the routes after the modules are loaded, with
\* JWT_EXPIRES_IN one of E; the tables are as the database holds them.
InitRoutes(E) ==
  /\ expiresIn \in E
  /\ client = ClientIdle
  /\ gate = GateIdle
  /\ now = 0
  /\ jwtOk \in BOOLEAN
  /\ inflight = [s \in Slots |-> Idle]
  /\ resp = Response("none", <<>>, 0, "none")
  /\ challenge = [k \in StoreKeys |-> NoMsg]
  /\ consumed = [k \in StoreKeys |-> NoUse]
  /\ failedSince = [k \in StoreKeys |-> FALSE]
  /\ writes = [k \in StoreKeys |-> 0]
  /\ held = [s \in Slots |-> NotHeld]
  /\ won = [k \in StoreKeys |-> <<>>]

\* The routes of a started process over an empty file table.
InitEnv(E) ==
  /\ InitRoutes(E)
  /\ users = << >>
  /\ files = {}
  /\ proc = ProcUp(EnvAllSet)

Init == InitEnv({Unset})

(* ------------------------------ actions ------------------------------- *)

\* new Date() moves on
Tick ==
  /\ now < MaxTime
  /\ now' = now + 1
  /\ UNCHANGED <<users, jwtOk, inflight, resp>>

\* router.get('/nonce/:walletAddress'): the draw of generateNonce is n, and
\* dbOk says whether the store serves the upsert.
GetNonce(walletAddress, n, dbOk) ==
  LET k == toLowerCase(walletAddress)
      nonce == toString(n)
  IN
  /\ walletAddress # Missing
  /\ IF ~isAddress(walletAddress)
     THEN /\ resp' = Response("nonce", walletAddress, 400, "InvalidAddress")
          /\ UNCHANGED users
     ELSE IF ~dbOk
     THEN /\ resp' = [Response("nonce", walletAddress, 500, "ServerError")
                        EXCEPT !.calls = <<"upsert">>]
          /\ UNCHANGED users
     ELSE /\ users' = upsert(k, nonce)
          /\ resp' = [Response("nonce", walletAddress, 200, "none")
                        EXCEPT !.message = [nonce |-> nonce, ts |-> now],
                               !.calls = <<"upsert">>,
                               !.wrote = (users' # users)]
  /\ UNCHANGED <<now, jwtOk, inflight>>

\* A comparison that takes every recovered address for the claimed one.
SignerMatchesAny(recoveredAddress, walletAddress) == TRUE
\* recoveredAddress.toLowerCase() !== walletAddress.toLowerCase(), negated
SignerMatches(recoveredAddress, walletAddress) ==
  toLowerCase(recoveredAddress) = toLowerCase(walletAddress)

\* The checks of router.post('/verify') up to the signature check, in the
\* order of the code: the status and error of the first check that fails,
\* or status 0 when all pass; calls lists the store and library calls made.
VerifyChecks(walletAddress, message, signature, dbOk) ==
  LET k == toLowerCase(walletAddress)
      user == findUnique(k)
      rec == verifyMessage(message, signature)
      Out(status, error, calls) ==
        [status |-> status, error |-> error, calls |-> calls]
  IN
  IF walletAddress = Missing \/ signature = NoSig \/ message = NoMsg
  THEN Out(400, "MissingFields", <<>>)
  ELSE IF ~isAddress(walletAddress)
  THEN Out(400, "InvalidAddress", <<>>)
  ELSE IF ~dbOk
  THEN Out(500, "ServerError", <<"findUnique">>)
  ELSE IF ~Found(user)
  THEN Out(404, "NotFound", <<"findUnique">>)
  ELSE IF ~includes(MessageText(message), user.nonce)
  THEN Out(400, "NonceMismatch", <<"findUnique">>)
  ELSE IF rec.threw
  THEN Out(401, "SignatureError", <<"findUnique", "verifyMessage">>)
  ELSE IF ~SignerMatches(rec.address, walletAddress)
  THEN Out(401, "INVALID_SIGNATURE", <<"findUnique", "verifyMessage">>)
  ELSE Out(0, "none", <<"findUnique", "verifyMessage">>)

\* router.post('/verify') from the request to the end of the signature
\* check (lines 80-130): it answers a failure, or goes on to the update.
VerifyRead(s, walletAddress, message, signature, dbOk) ==
  LET out == VerifyChecks(walletAddress, message, signature, dbOk) IN
  /\ inflight[s].pc = "idle"
  /\ IF out.status = 0
     THEN /\ inflight' = [inflight EXCEPT ![s] =
                 [pc |-> "update", walletAddress |-> walletAddress,
                  nonce |-> findUnique(toLowerCase(walletAddress)).nonce,
                  class |-> ClassOf(walletAddress, message, signature),
                  email |-> NoEmail]]
          /\ UNCHANGED resp
     ELSE /\ resp' = [Response("verify", walletAddress, out.status, out.error)
                        EXCEPT !.calls = out.calls,
                               !.class = ClassOf(walletAddress, message, signature)]
          /\ UNCHANGED inflight
  /\ UNCHANGED <<users, now, jwtOk>>

\* router.post('/verify') from prisma.user.update to the response (lines
\* 132-166): the draw of generateNonce is n; dbOk says whether the store
\* serves the update; jwt.sign throws when jwtOk is false.
VerifyCommit(s, n, dbOk) ==
  LET r == inflight[s]
      k == toLowerCase(r.walletAddress)
      answer(status, error) ==
        [Response("verify", r.walletAddress, status, error)
           EXCEPT !.calls = <<"update">>, !.class = r.class,
                  !.wrote = (users' # users)]
  IN
  /\ r.pc = "update"
  /\ inflight' = [inflight EXCEPT ![s] = Idle]
  /\ IF ~dbOk
     THEN /\ UNCHANGED users
          /\ resp' = answer(500, "ServerError")
     ELSE /\ users' = update(k, VerifyData(toString(n)))
          /\ IF jwtOk
             THEN resp' = [answer(200, "none")
                             EXCEPT !.token = generateAccessToken(k),
                                    !.user = users'[k]]
             ELSE resp' = answer(500, "ServerError")
  /\ UNCHANGED <<now, jwtOk>>

\* The JSON body of the error responses of the nonce and verify routes:
\* the error text and, where the handler sends one, the code.
ErrorBody(op, error) ==
  CASE error = "MissingFields" ->
         [error |-> "Adresse wallet, signature et message requis"]
    [] error = "InvalidAddress" ->
         [error |-> "Format d'adresse wallet invalide"]
    [] error = "NotFound" ->
         [error |-> "Utilisateur non trouve. Recuperez d'abord un nonce."]
    [] error = "NonceMismatch" ->
         [error |-> "Nonce invalide dans le message"]
    [] error = "INVALID_SIGNATURE" ->
         [error |-> "Signature invalide", code |-> "INVALID_SIGNATURE"]
    [] error = "SignatureError" ->
         [error |-> "Erreur lors de la verification de la signature"]
    [] error = "ServerError" /\ op = "nonce" ->
         [error |-> "Erreur serveur lors de la generation du nonce"]
    [] error = "ServerError" /\ op = "verify" ->
         [error |-> "Erreur serveur lors de la verification"]
    [] OTHER -> [error |-> error]

(* ------------------- the routes behind the bearer token --------------- *)

\* The e-mail strings of a profile update: a well-formed one and one
\* without the @.
GoodEmail == <<"a", "@", "b", ".", "c">>
BadEmail == <<"a", "b", ".", "c">>
EmailInputs == {NoEmail, GoodEmail, BadEmail}

\* /^[^\s@]+@[^\s@]+\.[^\s@]+$/.test(email)
EmailFormatOk(e) ==
  /\ \A i \in 1..Len(e) : e[i] # " "
  /\ \E i \in 2..Len(e) :
       /\ e[i] = "@"
       /\ \A j \in 1..Len(e) : e[j] = "@" => j = i
       /\ \E j \in (i + 2)..(Len(e) - 1) : e[j] = "."

\* authenticateWeb3Token (middleware/Auth.js): the request carries a token
\* of generateAccessToken for k that has not expired. The last token for k
\* was issued when lastLogin was written, by verify or by refresh.
Bearer(k) ==
  /\ jwtOk
  /\ k \in DOMAIN users
  /\ users[k].isVerified
  /\ now < users[k].lastLogin + SpanOf(JWT_EXPIRES_IN)

\* router.post('/refresh')
Refresh(k, dbOk) ==
  /\ Bearer(k)
  /\ IF ~dbOk
     THEN /\ UNCHANGED users
          /\ resp' = [Response("refresh", k, 500, "ServerError")
                        EXCEPT !.calls = <<"update">>]
     ELSE /\ users' = update(k, [lastLogin |-> now])
          /\ resp' = [Response("refresh", k, 200, "none")
                        EXCEPT !.calls = <<"update">>,
                               !.token = generateAccessToken(k),
                               !.wrote = (users' # users)]
  /\ UNCHANGED <<now, jwtOk, inflight>>

\* prisma.user.findUnique({ where: { email } })
findByEmail(email) ==
  IF \E x \in DOMAIN users : users[x].email = email
  THEN users[CHOOSE x \in DOMAIN users : users[x].email = email]
  ELSE NoUser

\* router.put('/profile'): email || undefined leaves the e-mail alone when
\* the request has none; updatedAt is not followed.
PutProfile(k, email, dbOk) ==
  LET existingUser == findByEmail(email)
      answer(status, error, calls) ==
        [Response("profile", k, status, error) EXCEPT !.calls = calls]
  IN
  /\ Bearer(k)
  /\ IF email # NoEmail /\ ~EmailFormatOk(email)
     THEN /\ UNCHANGED users
          /\ resp' = answer(400, "InvalidEmail", <<>>)
     ELSE IF ~dbOk
     THEN /\ UNCHANGED users
          /\ resp' = answer(500, "ServerError", <<"findUnique">>)
     ELSE IF /\ email # NoEmail
             /\ Found(existingUser)
             /\ existingUser.walletAddress # k
     THEN /\ UNCHANGED users
          /\ resp' = answer(409, "EmailInUse", <<"findUnique">>)
     ELSE /\ users' = update(k, IF email # NoEmail THEN [email |-> email]
                                 ELSE << >>)
          /\ resp' = [answer(200, "none", <<"findUnique", "update">>)
                        EXCEPT !.user = users'[k],
                               !.wrote = (users' # users)]
  /\ UNCHANGED <<now, jwtOk, inflight>>

\* existingUser.walletAddress !== req.user.walletAddress, negated
IsRequester(existingUser, k) == existingUser.walletAddress = k

\* router.put('/profile') for the user k from the request to the end of
\* the e-mail check (lines 237-257): it answers, or goes on to the update.
ProfileRead(s, k, email, dbOk) ==
  LET existingUser == findByEmail(email)
      answer(status, error, calls) ==
        [Response("profile", k, status, error)
           EXCEPT !.calls = calls, !.email = email]
  IN
  /\ Bearer(k)
  /\ inflight[s].pc = "idle"
  /\ IF email # NoEmail /\ ~EmailFormatOk(email)
     THEN /\ resp' = answer(400, "InvalidEmail", <<>>)
          /\ UNCHANGED inflight
     ELSE IF email # NoEmail /\ ~dbOk
     THEN /\ resp' = answer(500, "ServerError", <<"findUnique">>)
          /\ UNCHANGED inflight
     ELSE IF /\ email # NoEmail
             /\ Found(existingUser)
             /\ ~IsRequester(existingUser, k)
     THEN /\ resp' = answer(409, "EmailInUse", <<"findUnique">>)
          /\ UNCHANGED inflight
     ELSE /\ inflight' = [inflight EXCEPT ![s] =
                 [pc |-> "profile", walletAddress |-> k, nonce |-> <<>>,
                  class |-> "plain", email |-> email]]
          /\ UNCHANGED resp
  /\ UNCHANGED <<users, now, jwtOk>>

\* router.put('/profile') from prisma.user.update to the response (lines
\* 259-288). The e-mail column is unique (findUnique({ where: { email } })
\* takes unique columns only): an update to an e-mail another record holds
\* is refused by the store, and the catch answers 500 like any store error.
ProfileWrite(s, dbOk) ==
  LET r == inflight[s]
      k == r.walletAddress
      taken == r.email # NoEmail
               /\ \E x \in DOMAIN users : x # k /\ users[x].email = r.email
      answer(status, error) ==
        [Response("profile", k, status, error)
           EXCEPT !.calls = IF r.email # NoEmail
                            THEN <<"findUnique", "update">> ELSE <<"update">>,
                  !.email = r.email]
  IN
  /\ r.pc = "profile"
  /\ inflight' = [inflight EXCEPT ![s] = Idle]
  /\ IF ~dbOk
     THEN /\ UNCHANGED users
          /\ resp' = answer(500, "ServerError")
     ELSE IF taken
     THEN /\ UNCHANGED users
          /\ resp' = answer(500, "UniqueConstraint")
     ELSE /\ users' = update(k, IF r.email # NoEmail THEN [email |-> r.email]
                                 ELSE << >>)
          /\ resp' = [answer(200, "none")
                        EXCEPT !.user = users'[k], !.wrote = (users' # users)]
  /\ UNCHANGED <<now, jwtOk>>

\* router.post('/logout'): the update writes updatedAt only
Logout(k, dbOk) ==
  /\ Bearer(k)
  /\ UNCHANGED users
  /\ resp' = [Response("logout", k, IF dbOk THEN 200 ELSE 500,
                        IF dbOk THEN "none" ELSE "ServerError")
                EXCEPT !.calls = <<"update">>]
  /\ UNCHANGED <<now, jwtOk, inflight>>

\* where: { isVerified: false, createdAt: { lt: oneDayAgo } }
unverifiedOld(oneDayAgo) ==
  {x \in DOMAIN users : ~users[x].isVerified /\ users[x].createdAt < oneDayAgo}

\* A cleanup that removes the records it selects.
deleteMany(selected, data) ==
  [x \in (DOMAIN users) \ selected |-> users[x]]
\* prisma.user.updateMany({ where, data }) on the selected records
updateMany(selected, data) ==
  [x \in DOMAIN users |->
     IF x \in selected
     THEN [f \in DOMAIN users[x] |->
             IF f \in DOMAIN data THEN data[f] ELSE users[x][f]]
     ELSE users[x]]

\* where: { isTemporary: true, createdAt: { lt: oneWeekAgo } }
temporaryOld(oneWeekAgo) ==
  {f \in files : f.isTemporary /\ f.createdAt < oneWeekAgo}

\* A cleanup of the files that takes every file older than a week.
deleteOld(selected) ==
  files \ {f \in files : f.createdAt < now - 7 * Day}
\* prisma.fileUpload.deleteMany({ where }) on the selected records
deleteFiles(selected) == files \ selected

\* cleanupOldData (server/index.js), run by setInterval: the draw of
\* Math.random is n; usersOk and filesOk say whether the store serves the
\* updateMany and the deleteMany; an error ends the run and is logged.
cleanupOldData(n, usersOk, filesOk) ==
  LET oneDayAgo == now - Day
      oneWeekAgo == now - 7 * Day
  IN
  /\ users' = IF usersOk
               THEN updateMany(unverifiedOld(oneDayAgo), [nonce |-> toString(n)])
               ELSE users
  /\ files' = IF usersOk /\ filesOk
               THEN deleteFiles(temporaryOld(oneWeekAgo))
               ELSE files
  /\ UNCHANGED <<now, jwtOk, inflight, resp>>

(* ------------------------------ the upload ---------------------------- *)

\* The files of an upload request: none, a JPEG and a PNG with their
\* headers, a JPEG with another header, an empty one, a PNG cut short, a
\* JSON file, a JPEG named .png and a text file.
UploadInputs ==
  {NoFile,
   [mimetype |-> "image/jpeg", ext |-> ".jpg", buffer |-> <<255, 216, 255, 224, 0>>],
   [mimetype |-> "image/jpeg", ext |-> ".jpg", buffer |-> <<255, 216, 0, 0>>],
   [mimetype |-> "image/jpeg", ext |-> ".jpg", buffer |-> <<>>],
   [mimetype |-> "image/png", ext |-> ".png", buffer |-> <<137, 80, 78, 71>>],
   [mimetype |-> "image/png", ext |-> ".png", buffer |-> <<137, 80>>],
   [mimetype |-> "application/json", ext |-> ".json", buffer |-> <<123>>],
   [mimetype |-> "image/jpeg", ext |-> ".png", buffer |-> <<255, 216, 255, 224>>],
   [mimetype |-> "text/plain", ext |-> ".txt", buffer |-> <<104, 105>>]}

\* the CIDs client.put can return
Cids == {"cidA", "cidB"}

\* allowedTypes of the fileFilter: the extensions of a MIME type
allowedTypes(mimetype) ==
  CASE mimetype = "image/jpeg" -> {".jpg", ".jpeg"}
    [] mimetype = "image/png" -> {".png"}
    [] mimetype = "image/gif" -> {".gif"}
    [] mimetype = "image/webp" -> {".webp"}
    [] mimetype = "application/pdf" -> {".pdf"}
    [] mimetype = "application/json" -> {".json"}
    [] OTHER -> {}

\* fileFilter of multer: isValidType && hasValidExtension
fileFilter(f) == f.ext \in allowedTypes(f.mimetype)

\* signatures of validateFileHeader; the empty sequence for a type without one
signatures(mimetype) ==
  CASE mimetype = "image/jpeg" -> <<255, 216, 255>>
    [] mimetype = "image/png" -> <<137, 80, 78, 71>>
    [] mimetype = "image/gif" -> <<71, 73, 70, 56>>
    [] mimetype = "application/pdf" -> <<37, 80, 68, 70>>
    [] OTHER -> <<>>

\* req.file.buffer.subarray(0, 4)
subarray4(buffer) ==
  SubSeq(buffer, 1, IF Len(buffer) < 4 THEN Len(buffer) ELSE 4)

\* validateFileHeader(header, mimetype): a byte the header has not is
\* undefined and equals no byte of the signature
validateFileHeader(header, mimetype) ==
  LET signature == signatures(mimetype) IN
  IF signature = <<>> THEN TRUE
  ELSE \A index \in 1..Len(signature) :
         index <= Len(header) /\ header[index] = signature[index]

\* the record prisma.fileUpload.create writes; isTemporary and createdAt
\* are the defaults of the schema
NewUpload(f, ipfsHash, k, temp) ==
  [id |-> 1 + Cardinality(files) + Cardinality(OldUploads),
   mimetype |-> f.mimetype, size |-> Len(f.buffer), ipfsHash |-> ipfsHash,
   uploadedBy |-> k, isTemporary |-> temp, createdAt |-> now]

\* An upload that writes its record before the IPFS put.
UploadOutcomeEager(authenticated, f, putOk, cid, dbOk) ==
  IF authenticated /\ f # NoFile /\ fileFilter(f) /\ Len(f.buffer) > 0
     /\ validateFileHeader(subarray4(f.buffer), f.mimetype) /\ dbOk
  THEN [status |-> IF putOk THEN 200 ELSE 500,
        error |-> IF putOk THEN "none" ELSE "IpfsError",
        calls |-> <<"create", "put">>, creates |-> TRUE,
        put |-> IF putOk THEN cid ELSE "failed",
        ipfsHash |-> IF putOk THEN cid ELSE "null"]
  ELSE [status |-> 400, error |-> "Rejected", calls |-> <<>>,
        creates |-> FALSE, put |-> "none", ipfsHash |-> "null"]
\* app.post('/api/upload', authenticateWeb3Token, upload.single('file'),
\* handler) up to the create: the status and error of the response, the
\* calls made, whether the record is created, what the put returned and
\* the ipfsHash of the record.
UploadOutcome(authenticated, f, putOk, cid, dbOk) ==
  LET Out(status, error, calls, creates, put, ipfsHash) ==
        [status |-> status, error |-> error, calls |-> calls,
         creates |-> creates, put |-> put, ipfsHash |-> ipfsHash]
      tokenSet == proc.env.WEB3_STORAGE_TOKEN
      putCalls == IF tokenSet THEN <<"put">> ELSE <<>>
      ipfsHash == IF tokenSet THEN cid ELSE "null"
  IN
  IF ~authenticated
  THEN Out(401, "Unauthorized", <<>>, FALSE, "none", "null")
  ELSE IF f # NoFile /\ ~fileFilter(f)
  THEN Out(500, "INTERNAL_ERROR", <<>>, FALSE, "none", "null")
  ELSE IF f = NoFile
  THEN Out(400, "NoFile", <<>>, FALSE, "none", "null")
  ELSE IF Len(f.buffer) = 0
  THEN Out(400, "EmptyFile", <<>>, FALSE, "none", "null")
  ELSE IF ~validateFileHeader(subarray4(f.buffer), f.mimetype)
  THEN Out(400, "BadHeader", <<>>, FALSE, "none", "null")
  ELSE IF tokenSet /\ ~putOk
  THEN Out(500, "IpfsError", <<"put">>, FALSE, "failed", "null")
  ELSE IF ~dbOk
  THEN Out(500, "UPLOAD_ERROR", putCalls \o <<"create">>, FALSE,
           IF tokenSet THEN cid ELSE "none", ipfsHash)
  ELSE Out(200, "none", putCalls \o <<"create">>, TRUE,
           IF tokenSet THEN cid ELSE "none", ipfsHash)

\* POST /api/upload for the user k: presents says whether the request
\* carries a token, putOk and cid what client.put does, temp the schema
\* default of isTemporary, dbOk whether the store serves the create.
Upload(k, presents, f, putOk, cid, temp, dbOk) ==
  LET authenticated == presents /\ Bearer(k)
      out == UploadOutcome(authenticated, f, putOk, cid, dbOk)
  IN
  /\ files' = IF out.creates
               THEN files \cup {NewUpload(f, out.ipfsHash, k, temp)}
               ELSE files
  /\ resp' = [Response("upload", k, out.status, out.error)
                EXCEPT !.calls = out.calls, !.wrote = out.creates,
                       !.upload = [file |-> f, authenticated |-> authenticated,
                                   put |-> out.put, ipfsHash |-> out.ipfsHash]]
  /\ UNCHANGED <<users, now, jwtOk, inflight>>

(* ------------------------------ history ------------------------------- *)

\* The history variables record what the handlers did; H names the ones a
\* specification follows (the others keep their initial value).
hist == <<challenge, consumed, failedSince, writes, held, won>>

HistoryOfNonce(H, walletAddress, dbOk) ==
  LET k == toLowerCase(walletAddress)
      issued == isAddress(walletAddress) /\ dbOk
  IN
  /\ ("writes" \in H /\ issued) => writes[k] < MaxWrites
  /\ challenge' = IF issued /\ "challenge" \in H
                  THEN [challenge EXCEPT ![k] = resp'.message]
                  ELSE challenge
  /\ failedSince' = IF issued /\ "failedSince" \in H
                    THEN [failedSince EXCEPT ![k] = FALSE]
                    ELSE failedSince
  /\ writes' = IF issued /\ "writes" \in H
               THEN [writes EXCEPT ![k] = @ + 1]
               ELSE writes
  /\ UNCHANGED <<consumed, held, won>>

HistoryOfRead(H, s, walletAddress, message, signature, dbOk) ==
  LET k == toLowerCase(walletAddress)
      out == VerifyChecks(walletAddress, message, signature, dbOk)
  IN
  /\ held' = IF out.status = 0
             THEN [held EXCEPT ![s] =
                     [msg |-> IF "consumed" \in H THEN message ELSE NoMsg,
                      rv |-> IF "writes" \in H THEN writes[k] ELSE 0]]
             ELSE held
  /\ failedSince' =
       IF /\ "failedSince" \in H
          /\ out.error \in {"NonceMismatch", "SignatureError", "INVALID_SIGNATURE"}
       THEN [failedSince EXCEPT ![k] = TRUE]
       ELSE failedSince
  /\ UNCHANGED <<challenge, consumed, writes, won>>

HistoryOfCommit(H, s, n, dbOk) ==
  LET k == toLowerCase(inflight[s].walletAddress)
      nonceWritten == dbOk /\ "nonce" \in DOMAIN VerifyData(toString(n))
      succeeded == dbOk /\ jwtOk
  IN
  /\ ("writes" \in H /\ nonceWritten) => writes[k] < MaxWrites
  /\ held' = [held EXCEPT ![s] = NotHeld]
  /\ challenge' = IF dbOk THEN [challenge EXCEPT ![k] = NoMsg] ELSE challenge
  /\ consumed' = IF succeeded /\ "consumed" \in H
                 THEN [consumed EXCEPT ![k] =
                         [walletAddress |-> inflight[s].walletAddress,
                          msg |-> held[s].msg]]
                 ELSE consumed
  /\ writes' = IF nonceWritten /\ "writes" \in H
               THEN [writes EXCEPT ![k] = @ + 1]
               ELSE writes
  /\ won' = IF succeeded /\ "writes" \in H
            THEN [won EXCEPT ![k] =
                    Append(@, [rv |-> held[s].rv,
                               clean |-> (held[s].rv = writes[k])])]
            ELSE won
  /\ UNCHANGED failedSince

(* --------------------------- specifications --------------------------- *)

\* A new request takes the first idle slot (the slots are interchangeable).
FirstIdle(S, s) ==
  /\ s \in S
  /\ inflight[s].pc = "idle"
  /\ s = "r2" => inflight["r1"].pc # "idle"

\* The requests of a verify. For an address the route accepts: every
\* message the nonce route can have issued by now with each signature, the requests with a missing field, and one
\* request that finds the store failing. For the other strings: a complete
\* request and one with a missing field.
SomeMsg == CHOOSE m \in Msgs : TRUE
VerifyInputs(A) ==
  UNION {
    IF isAddress(a)
    THEN UNION {{<<a, m, BadSig, TRUE>>, <<a, m, Sign("keyA", OtherMsg), TRUE>>,
                 <<a, m, Sign("keyA", m), TRUE>>, <<a, m, Sign("keyB", m), TRUE>>}
                  : m \in {x \in Msgs : x.ts <= now}}
           \cup {<<a, NoMsg, BadSig, TRUE>>, <<a, SomeMsg, NoSig, TRUE>>,
                 <<a, SomeMsg, BadSig, FALSE>>}
    ELSE {<<a, SomeMsg, BadSig, TRUE>>, <<a, SomeMsg, NoSig, TRUE>>}
    : a \in A }

\* What the server leaves alone: its environment and the browser.
outside == <<expiresIn, client, gate, files, proc>>
\* What the browser leaves alone besides the routes it calls.
apart == <<expiresIn, gate, files, proc>>

TickStep == Tick /\ UNCHANGED hist /\ UNCHANGED outside

NonceStep(H, A) ==
  \E a \in A, n \in Draws, dbOk \in BOOLEAN :
    GetNonce(a, n, dbOk) /\ HistoryOfNonce(H, a, dbOk) /\ UNCHANGED outside

\* The verify requests of a client that signs with the key of the address
\* a message the nonce route can have issued by now.
OwnerInputs(A) ==
  {<<a, m, Sign(OwnerOf(a), m), dbOk>> :
     a \in {x \in A : isAddress(x)}, m \in {x \in Msgs : x.ts <= now},
     dbOk \in BOOLEAN}

ReadStepOn(H, I, S) ==
  \E s \in S, i \in I :
    /\ FirstIdle(S, s)
    /\ VerifyRead(s, i[1], i[2], i[3], i[4])
    /\ HistoryOfRead(H, s, i[1], i[2], i[3], i[4])
    /\ UNCHANGED outside

ReadStep(H, A, S) == ReadStepOn(H, VerifyInputs(A), S)

CommitStep(H, S) ==
  \E s \in S, n \in Draws, dbOk \in BOOLEAN :
    VerifyCommit(s, n, dbOk) /\ HistoryOfCommit(H, s, n, dbOk) /\ UNCHANGED outside

\* The 0x-prefixed forms of the address and the strings that are none.
Prefixed == AddrInputs \ {AddrNoPrefix}
\* The address with and without its prefix.
WithBare == {AddrLower, AddrNoPrefix, NotAnAddress, Missing}
\* Two forms of the address.
TwoForms == {AddrLower, AddrUpper, NotAnAddress, Missing}
\* One form of the address.
OneForm == {AddrLower, NotAnAddress, Missing}
\* The address as a wallet reports it, in checksum case.
WalletForm == {AddrChecksum, NotAnAddress, Missing}

\* One request at a time over the prefixed forms, following the challenge;
\* the clock stands still.
Next ==
  \/ NonceStep({"challenge"}, Prefixed)
  \/ ReadStep({"challenge"}, Prefixed, {"r1"})
  \/ CommitStep({"challenge"}, {"r1"})
Spec == Init /\ [][Next]_vars

\* One request at a time, the address also without its prefix, following
\* the challenge and the failed attempts; the clock stands still.
NextBare ==
  \/ NonceStep({"challenge", "failedSince"}, WithBare)
  \/ ReadStep({"challenge", "failedSince"}, WithBare, {"r1"})
  \/ CommitStep({"challenge", "failedSince"}, {"r1"})
SpecBare == Init /\ [][NextBare]_vars

\* One request at a time, following the consumed message.
NextReplay ==
  \/ TickStep
  \/ NonceStep({"consumed"}, TwoForms)
  \/ ReadStep({"consumed"}, TwoForms, {"r1"})
  \/ CommitStep({"consumed"}, {"r1"})
SpecReplay == Init /\ [][NextReplay]_vars

\* Two verify requests in flight, following the nonce writes; the clock
\* stands still.
NextRace ==
  \/ NonceStep({"writes"}, OneForm)
  \/ ReadStep({"writes"}, OneForm, Slots)
  \/ CommitStep({"writes"}, Slots)
SpecRace == Init /\ [][NextRace]_vars

RefreshStep ==
  \E k \in StoreKeys, dbOk \in BOOLEAN :
    Refresh(k, dbOk) /\ UNCHANGED hist /\ UNCHANGED outside

ProfileStep ==
  \E k \in StoreKeys, email \in EmailInputs, dbOk \in BOOLEAN :
    PutProfile(k, email, dbOk) /\ UNCHANGED hist /\ UNCHANGED outside

LogoutStep ==
  \E k \in StoreKeys, dbOk \in BOOLEAN :
    Logout(k, dbOk) /\ UNCHANGED hist /\ UNCHANGED outside

\* What a cleanup run leaves alone besides the routes.
around == <<expiresIn, client, gate, proc>>

CleanupStep ==
  \E n \in Draws, usersOk \in BOOLEAN, filesOk \in BOOLEAN :
    cleanupOldData(n, usersOk, filesOk) /\ UNCHANGED hist /\ UNCHANGED around

\* Every route of routes/auth.js that writes and the periodic cleanup, one
\* request at a time for the checksum form of the address and verify requests signed
\* by its owner, with the clock running and JWT_EXPIRES_IN set or not.
NextFlow ==
  \/ TickStep
  \/ NonceStep({}, WalletForm)
  \/ ReadStepOn({}, OwnerInputs(WalletForm), {"r1"})
  \/ CommitStep({}, {"r1"})
  \/ RefreshStep
  \/ ProfileStep
  \/ LogoutStep
  \/ CleanupStep
SpecFlow == InitEnv(EnvSpans) /\ [][NextFlow]_vars

\* The upload requests: one without a token, each file with a token when
\* IPFS and the store work, and a well-formed file with every outcome of
\* the put, of the schema default and of the create.
GoodUpload == [mimetype |-> "image/jpeg", ext |-> ".jpg",
               buffer |-> <<255, 216, 255, 224, 0>>]
UploadRequests ==
  {<<FALSE, GoodUpload, TRUE, "cidA", FALSE, TRUE>>}
    \cup {<<TRUE, f, TRUE, "cidA", FALSE, TRUE>> : f \in UploadInputs}
    \cup {<<TRUE, GoodUpload, putOk, cid, temp, dbOk>> :
             putOk \in BOOLEAN, cid \in Cids, temp \in BOOLEAN,
             dbOk \in BOOLEAN}

UploadStep ==
  \E k \in StoreKeys, q \in UploadRequests :
    /\ Cardinality(files \ OldUploads) < MaxUploads
    /\ Upload(k, q[1], q[2], q[3], q[4], q[5], q[6])
    /\ UNCHANGED hist /\ UNCHANGED around

\* A started process with WEB3_STORAGE_TOKEN set or not, over a file table
\* that holds files of earlier runs.
InitFiles ==
  /\ InitRoutes({Unset})
  /\ users = << >>
  /\ files = OldUploads
  /\ proc \in {ProcUp([EnvAllSet EXCEPT !.WEB3_STORAGE_TOKEN = t]) :
                 t \in BOOLEAN}

\* The upload beside the nonce and verify routes for the checksum form of
\* the address; the clock stands still.
NextFiles ==
  \/ NonceStep({}, {AddrChecksum})
  \/ ReadStepOn({}, OwnerInputs({AddrChecksum}), {"r1"})
  \/ CommitStep({}, {"r1"})
  \/ UploadStep
SpecFiles == InitFiles /\ [][NextFiles]_vars

\* The address with and without its prefix: two records.
TwoRecords == {AddrLower, AddrNoPrefix}

\* The record of another account, verified in an earlier run of the process.
OtherKey == toLowerCase(<<"0", "x">> \o Body("b"))
VerifiedBefore ==
  [x \in {OtherKey} |->
     [walletAddress |-> OtherKey, nonce |-> toString(0), isVerified |-> TRUE,
      lastLogin |-> 0 - 2 * Day, email |-> NoEmail, createdAt |-> 0 - 8 * Day]]

\* A started process over the tables of earlier runs: a verified user and
\* the old files.
InitSweep ==
  /\ InitRoutes({Unset})
  /\ jwtOk
  /\ users = VerifiedBefore
  /\ files = OldUploads
  /\ proc = ProcUp(EnvAllSet)

\* The periodic cleanup beside the nonce route for two records, the clock
\* running.
NextSweep ==
  \/ TickStep
  \/ NonceStep({}, TwoRecords)
  \/ CleanupStep
SpecSweep == InitSweep /\ [][NextSweep]_vars

\* The nonce and verify routes for the checksum form of the address with
\* the periodic cleanup and the clock running, following the challenge.
NextKeep ==
  \/ TickStep
  \/ NonceStep({"challenge"}, WalletForm)
  \/ ReadStepOn({"challenge"}, OwnerInputs(WalletForm), {"r1"})
  \/ CommitStep({"challenge"}, {"r1"})
  \/ CleanupStep
SpecKeep == Init /\ [][NextKeep]_vars

ProfileReadStep ==
  \E s \in Slots, k \in DOMAIN users, email \in EmailInputs, dbOk \in BOOLEAN :
    /\ FirstIdle(Slots, s)
    /\ ProfileRead(s, k, email, dbOk)
    /\ UNCHANGED hist /\ UNCHANGED outside

ProfileWriteStep ==
  \E s \in Slots, dbOk \in BOOLEAN :
    ProfileWrite(s, dbOk) /\ UNCHANGED hist /\ UNCHANGED outside

\* Two accounts verified and logged in when the process starts.
TwoVerified ==
  [x \in {AddrLower, OtherKey} |->
     [walletAddress |-> x, nonce |-> toString(0), isVerified |-> TRUE,
      lastLogin |-> 0, email |-> NoEmail, createdAt |-> 0]]
InitProfile ==
  /\ InitRoutes({Unset})
  /\ jwtOk
  /\ users = TwoVerified
  /\ files = {}
  /\ proc = ProcUp(EnvAllSet)

\* Profile updates of two users, two requests at a time.
NextProfile == ProfileReadStep \/ ProfileWriteStep
SpecProfile == InitProfile /\ [][NextProfile]_vars

(* ------------------- index.js from start to shutdown ------------------ *)

\* the routes, the tables and the browser, which the process steps leave
inside == <<code, hist, expiresIn, client, gate, files>>

requiredEnvVars == {"JWT_SECRET", "DATABASE_URL"}
\* An environment check that finds nothing missing.
noneMissing(env) == {}
missingEnvVars(env) == {varName \in requiredEnvVars : ~env[varName]}

\* if (missingEnvVars.length > 0) process.exit(1); the middleware set up
\* after it registers no route
CheckEnv ==
  /\ proc.pc = "start"
  /\ proc' = IF missingEnvVars(proc.env) # {}
             THEN [proc EXCEPT !.pc = "exited", !.exit = 1]
             ELSE [proc EXCEPT !.pc = "connect", !.i = 0]
  /\ UNCHANGED inside

\* milliseconds
Second == 1000
\* setTimeout(resolve, 1000 * (i + 1))
backoff(i, retries) == Second * (i + 1)

\* A test that takes the attempt after the last one for the last.
isLate(i, retries) == i = retries
\* i === retries - 1
isLast(i, retries) == i = retries - 1

\* What an attempt can come to: both calls served, prisma.$connect
\* throwing, or prisma.$queryRaw throwing on the open connection.
Outcomes == {"ok", "connect", "query"}

\* connectDatabase from the loop test to the next await or to its end:
\* one attempt with the given outcome, or the return when the loop is over.
connectDatabase(outcome) ==
  /\ proc.pc = "connect"
  /\ proc' =
       IF ~(proc.i < proc.retries)
       THEN [proc EXCEPT !.pc = "mount"]
       ELSE LET tried == [proc EXCEPT !.tries = Append(@, outcome)]
            IN IF outcome = "ok"
               THEN [tried EXCEPT !.db = "connected", !.pc = "mount"]
               ELSE LET failed == [tried EXCEPT !.db = IF outcome = "query"
                                                      THEN "connected" ELSE @]
                    IN IF isLast(proc.i, proc.retries)
                       THEN [failed EXCEPT !.pc = "exited", !.exit = 1]
                       ELSE [failed EXCEPT !.pc = "wait"]
  /\ UNCHANGED inside

\* The timer of the catch block fires: i++ and back to the loop test.
connectWait ==
  /\ proc.pc = "wait"
  /\ proc' = [proc EXCEPT !.waits = Append(@, backoff(proc.i, proc.retries)),
                          !.i = @ + 1, !.pc = "connect"]
  /\ UNCHANGED inside

\* app.use('/api/auth', web3AuthRoutes) and the routes after it
MountRoutes ==
  /\ proc.pc = "mount"
  /\ proc' = [proc EXCEPT !.routes = TRUE, !.pc = "timer"]
  /\ UNCHANGED inside

\* setInterval(cleanupOldData, 6 * 60 * 60 * 1000)
StartTimer ==
  /\ proc.pc = "timer"
  /\ proc' = [proc EXCEPT !.timer = TRUE, !.pc = "listen"]
  /\ UNCHANGED inside

\* process.on('SIGINT'), process.on('SIGTERM') and app.listen(PORT)
Listen ==
  /\ proc.pc = "listen"
  /\ proc' = [proc EXCEPT !.handlers = TRUE, !.http = "listening",
                          !.pc = "up"]
  /\ UNCHANGED inside

\* The listening server takes a request.
Arrive ==
  /\ proc.pc # "exited"
  /\ proc.http = "listening"
  /\ proc.serving < MaxServing
  /\ proc' = [proc EXCEPT !.serving = @ + 1]
  /\ UNCHANGED inside

\* A request is answered and its connection ends.
Finish ==
  /\ proc.pc # "exited"
  /\ proc.serving > 0
  /\ proc' = [proc EXCEPT !.serving = @ - 1]
  /\ UNCHANGED inside

\* SIGINT or SIGTERM: shutdown runs to its await. server.close stops the
\* server from accepting and returns; its callback runs later.
shutdown ==
  /\ proc.pc = "up"
  /\ proc.handlers
  /\ proc' = [proc EXCEPT !.http = "closing", !.pc = "disconnecting"]
  /\ UNCHANGED inside

\* The last connection has ended: the server emits 'close' and the
\* callback given to server.close runs.
serverClosed ==
  /\ proc.pc # "exited"
  /\ proc.http = "closing"
  /\ proc.serving = 0
  /\ proc' = [proc EXCEPT !.http = "closed", !.closed = TRUE]
  /\ UNCHANGED inside

\* await prisma.$disconnect() settles: logger.end() and process.exit(0)
\* follow at once; a rejection is unhandled and ends the process with 1.
disconnected(ok) ==
  /\ proc.pc = "disconnecting"
  /\ proc' = IF ok
             THEN [proc EXCEPT !.db = "disconnected", !.pc = "exited",
                               !.exit = 0]
             ELSE [proc EXCEPT !.pc = "exited", !.exit = 1]
  /\ UNCHANGED inside

ConnectStep == \E outcome \in Outcomes : connectDatabase(outcome)
DisconnectStep == \E ok \in BOOLEAN : disconnected(ok)

Envs == [{"JWT_SECRET", "DATABASE_URL", "WEB3_STORAGE_TOKEN"} -> BOOLEAN]

\* node starts index.js over an empty database, retries one of R
InitBoot(R) ==
  /\ InitRoutes({Unset})
  /\ users = << >>
  /\ files = {}
  /\ proc \in {ProcStart(env, retries) : env \in Envs, retries \in R}

NextBoot ==
  \/ CheckEnv
  \/ ConnectStep
  \/ connectWait
  \/ MountRoutes
  \/ StartTimer
  \/ Listen
  \/ Arrive
  \/ Finish
  \/ shutdown
  \/ serverClosed
  \/ DisconnectStep

\* index.js as it is: await connectDatabase()
SpecBoot == InitBoot({DefaultRetries}) /\ [][NextBoot]_vars

\* connectDatabase under every number of retries; an awaited call settles
\* and a timer fires, so the steps of the start are taken when they can be.
SpecConnect ==
  /\ InitBoot(0..MaxRetries)
  /\ [][NextBoot]_vars
  /\ WF_vars(CheckEnv)
  /\ WF_vars(ConnectStep)
  /\ WF_vars(connectWait)

(* ----------------------------- the browser ---------------------------- *)

\* useAccount().address: the account of the wallet, in checksum case
ClientAddress == AddrChecksum

\* `Sign this message to authenticate with CertifyWeb3. Nonce: ${nonce}`
ClientMessage(nonce) == [nonce |-> nonce, ts |-> Null]

\* authAPI.verify(walletAddress, signature): the third argument of
\* api.post('/auth/verify', { walletAddress, signature, message }) is
\* undefined, and JSON leaves an undefined property out
VerifyRequest(walletAddress, signature) ==
  [walletAddress |-> walletAddress, signature |-> signature, message |-> NoMsg]

\* res.json({ message, user, accessToken }) of the verify route
SuccessBody(r) ==
  [message |-> "Connexion reussie", user |-> r.user, accessToken |-> Jwt(r.token)]

\* the catch block of authenticateUser: a toast and logout() of the store
ClientFailed(c) == [c EXCEPT !.pc = "failed"]

\* authenticateUser after authAPI.verify has settled with response r: 2xx
\* resolves and `const { token, user } = verifyResponse.data` goes to
\* localStorage.setItem('auth_token', token); any other status rejects, the
\* response interceptor removes the item on 401, and the catch block runs.
AfterVerify(c, r) ==
  IF r.status = 200
  THEN [c EXCEPT !.pc = "done",
                 !.authToken = StringOf(Property(SuccessBody(r), "token"))]
  ELSE ClientFailed(IF r.status = 401 THEN [c EXCEPT !.authToken = NoItem]
                    ELSE c)

\* the request interceptor: the Authorization header of the next request
Authorization(item) == IF item = NoItem THEN Undefined ELSE item

\* authenticateUser up to the nonce response (lines 22-41): with an item in
\* localStorage, authAPI.getMe is no function, the TypeError is caught and
\* the item removed; then GET /auth/nonce/<address> is sent and answered.
ClientGetNonce(n, dbOk) ==
  LET c == [client EXCEPT !.authToken = NoItem] IN
  /\ client.pc = "idle"
  /\ GetNonce(ClientAddress, n, dbOk)
  /\ client' = IF resp'.status = 200
                THEN [c EXCEPT !.pc = "sign", !.nonceResponse = resp'.message]
                ELSE ClientFailed(c)

\* lines 43-45: the message is built from the nonce of the response and the
\* wallet signs it, or the user declines and signMessageAsync rejects.
ClientSign(accepts) ==
  LET message == ClientMessage(client.nonceResponse.nonce) IN
  /\ client.pc = "sign"
  /\ client' = IF accepts
                THEN [client EXCEPT !.pc = "verify", !.message = message,
                        !.signature = Sign(OwnerOf(ClientAddress), message)]
                ELSE ClientFailed(client)
  /\ UNCHANGED code

\* lines 47-60: POST /auth/verify is sent; the route answers at once, or
\* goes on to its update and answers after it.
ClientVerify(s, dbOk) ==
  LET body == VerifyRequest(ClientAddress, client.signature)
      c == [client EXCEPT !.sent = body]
  IN
  /\ client.pc = "verify"
  /\ VerifyRead(s, body.walletAddress, body.message, body.signature, dbOk)
  /\ client' = IF inflight'[s].pc = "update" THEN [c EXCEPT !.pc = "waiting"]
                ELSE AfterVerify(c, resp')

\* useEffect: the account changes or reconnects, and authenticateUser runs
\* again; localStorage stays.
ClientReconnect ==
  /\ client.pc \in {"failed", "done"}
  /\ client' = [ClientIdle EXCEPT !.authToken = client.authToken]
  /\ UNCHANGED code

ClientNonceStep ==
  \E n \in Draws, dbOk \in BOOLEAN :
    /\ ClientGetNonce(n, dbOk)
    /\ HistoryOfNonce({}, ClientAddress, dbOk)
    /\ UNCHANGED apart

ClientSignStep ==
  \E accepts \in BOOLEAN :
    ClientSign(accepts) /\ UNCHANGED hist /\ UNCHANGED apart

ClientVerifyStep ==
  \E s \in {"r1"}, dbOk \in BOOLEAN :
    /\ FirstIdle({"r1"}, s)
    /\ ClientVerify(s, dbOk)
    /\ HistoryOfRead({}, s, ClientAddress, NoMsg, client.signature, dbOk)
    /\ UNCHANGED apart

ClientReconnectStep ==
  ClientReconnect /\ UNCHANGED hist /\ UNCHANGED apart

\* The update of a verify request and its response, which settles
\* authAPI.verify when the browser waits for it.
SettleStep(S) ==
  \E s \in S, n \in Draws, dbOk \in BOOLEAN :
    /\ VerifyCommit(s, n, dbOk)
    /\ HistoryOfCommit({}, s, n, dbOk)
    /\ client' = IF client.pc = "waiting" THEN AfterVerify(client, resp')
                  ELSE client
    /\ UNCHANGED apart

\* The browser running authenticateUser, and requests sent to the nonce and
\* verify routes directly by a caller that signs the challenge it was
\* given; one verify request at a time, the clock stands still.
NextClient ==
  \/ NonceStep({}, WalletForm)
  \/ ReadStepOn({}, OwnerInputs(WalletForm), {"r1"})
  \/ SettleStep({"r1"})
  \/ ClientNonceStep
  \/ ClientSignStep
  \/ ClientVerifyStep
  \/ ClientReconnectStep
SpecClient == Init /\ [][NextClient]_vars

(* ------------------------- the mounts of index.js --------------------- *)

\* app.use(path, ...middleware, router), in the order of index.js: the
\* middleware a request under the path runs through and the router behind it
Mounts ==
  << [path |-> "/api/auth", chain |-> <<"strictLimiter">>,
      router |-> "web3AuthRoutes"],
     [path |-> "/api/company",
      chain |-> <<"authenticateWeb3Token", "requireCompany">>,
      router |-> "companyRoutes"],
     [path |-> "/api/templates",
      chain |-> <<"authenticateWeb3Token", "requireCompany">>,
      router |-> "templateRoutes"],
     [path |-> "/api/certificates", chain |-> <<"authenticateWeb3Token">>,
      router |-> "certificateRoutes"],
     [path |-> "/api/public/certificates", chain |-> <<"optionalWeb3Auth">>,
      router |-> "certificateRoutes"],
     [path |-> "/api/ipfs", chain |-> <<"optionalWeb3Auth">>,
      router |-> "ipfsRoutes"],
     [path |-> "/api/contracts",
      chain |-> <<"authenticateWeb3Token", "requireCompany">>,
      router |-> "contractRoutes"],
     [path |-> "/api/admin/certificates",
      chain |-> <<"authenticateWeb3Token", "requireCompany",
                  "requireVerifiedCompany">>,
      router |-> "certificateRoutes"] >>

\* the first mount a URL falls under (the paths are no prefixes of each other)
MountOf(url) == Mounts[CHOOSE i \in 1..Len(Mounts) : Mounts[i].path = url]
Urls == {Mounts[i].path : i \in 1..Len(Mounts)}

\* what a request presents: no token, a token that does not verify, or a
\* valid one; and the company of its user: none, unverified or verified
Tokens == {"none", "invalid", "valid"}
Companies == {"none", "unverified", "verified"}

\* app.use('/api/', limiter) and the middleware ahead of every mount that
\* can end a request
Ahead == <<"limiter", "cors", "express.json">>

\* Whether a middleware of middleware/Auth.js calls next() for the request
\* g; the limiters, cors and the body parser pass or end the request (ok).
CallsNext(mw, g, ok) ==
  CASE mw = "authenticateWeb3Token" -> g.token = "valid"
    [] mw = "optionalWeb3Auth" -> TRUE
    [] mw = "requireCompany" -> g.token = "valid" /\ g.company # "none"
    [] mw = "requireVerifiedCompany" ->
         g.token = "valid" /\ g.company = "verified"
    [] OTHER -> ok

\* a request arrives under one of the mounts
GateArrive(url, token, company) ==
  /\ gate.at = "idle"
  /\ gate' = [url |-> url, token |-> token, company |-> company,
              chain |-> Ahead \o MountOf(url).chain, passed |-> <<>>,
              at |-> "middleware"]

\* the next middleware of the chain runs: it calls next(), and after the
\* last one the request is with the router, or it answers the request
GateNext(ok) ==
  LET mw == Head(gate.chain) IN
  /\ gate.at = "middleware"
  /\ gate' = IF CallsNext(mw, gate, ok)
              THEN [gate EXCEPT !.chain = Tail(@), !.passed = Append(@, mw),
                      !.at = IF Len(gate.chain) = 1
                             THEN MountOf(gate.url).router ELSE "middleware"]
              ELSE [gate EXCEPT !.at = "answered"]

\* the response is sent
GateDone ==
  /\ gate.at \notin {"idle", "middleware"}
  /\ gate' = GateIdle

beside == <<code, hist, expiresIn, client, files, proc>>

GateArriveStep ==
  \E url \in Urls, token \in Tokens, company \in Companies :
    GateArrive(url, token, company) /\ UNCHANGED beside
GateNextStep == \E ok \in BOOLEAN : GateNext(ok) /\ UNCHANGED beside
GateDoneStep == GateDone /\ UNCHANGED beside

\* Requests on their way through the mounts, one at a time.
NextGate == GateArriveStep \/ GateNextStep \/ GateDoneStep
SpecGate == Init /\ [][NextGate]_vars

(* ------------------------------- claims ------------------------------- *)

\* Two strings differ at most in letter case.
EqualIgnoringCase(a, b) ==
  /\ Len(a) = Len(b)
  /\ \A i \in 1..Len(a) : LowerOf(a[i]) = LowerOf(b[i])

\* The canonical lower-case form of an address string.
RecordKey(a) == [i \in 1..Len(a) |-> LowerOf(a[i])]

\* The 0x-prefixed forms that are valid addresses, and strings that are not.
WellFormed == {AddrLower, AddrUpper, AddrChecksum}
Malformed == {NotAnAddress, AddrBadChecksum, AddrUpperPrefix}

\* C6: the live challenge of address A, signed with the key of another
\* address and submitted with claimed address A, is answered 401
\* INVALID_SIGNATURE: no token is issued, no record changes, and the
\* request never reaches the update.
C6_CrossAddressRejected ==
  /\ resp.class = "cross"
       => /\ resp.status = 401
          /\ resp.error = "INVALID_SIGNATURE"
          /\ resp.token = NoToken
          /\ ~resp.wrote
  /\ \A s \in Slots : inflight[s].class # "cross"

C6_Witness ==
  /\ resp.op = "verify"
  /\ resp.class = "cross"
  /\ resp.status = 401
  /\ resp.walletAddress \in WellFormed
  /\ RecordKey(resp.walletAddress) \in DOMAIN users

\* C8: a complete verify request with a well-formed address that has no
\* identity record is answered 404 unless the store fails, creates no
\* record, and never reaches the update.
C8_UnknownAddress ==
  /\ ( /\ resp.op = "verify"
       /\ resp.walletAddress \in WellFormed
       /\ RecordKey(resp.walletAddress) \notin DOMAIN users
       /\ resp.error \notin {"MissingFields", "ServerError"} )
       => /\ resp.status = 404
          /\ resp.error = "NotFound"
          /\ resp.token = NoToken
          /\ ~resp.wrote
  /\ \A s \in Slots :
       inflight[s].pc = "update"
         => RecordKey(inflight[s].walletAddress) \in DOMAIN users

C8_Witness ==
  /\ resp.op = "verify"
  /\ resp.status = 404
  /\ resp.walletAddress \in WellFormed
  /\ DOMAIN users = {}

\* C9: the nonce route answers a string that is not a valid address with
\* 400, makes no call to the identity store, and leaves every record as
\* it was.
C9_MalformedAddressRejected ==
  (resp.op = "nonce" /\ resp.walletAddress \in Malformed)
    => /\ resp.status = 400
       /\ resp.calls = <<>>
       /\ ~resp.wrote

C9_Witness ==
  /\ resp.op = "nonce"
  /\ resp.walletAddress \in Malformed
  /\ resp.status = 400
  /\ AddrLower \in DOMAIN users

\* Every record is stored under its lower-case address, a nonce issued
\* through any accepted form of an address is the one stored in the record
\* of its lower-case form, a token names that record, and the checks of
\* verify give the same result for every accepted form.
SameRecordForVariants ==
  /\ \A k \in DOMAIN users : k = RecordKey(k) /\ users[k].walletAddress = k
  /\ (resp.op = "nonce" /\ resp.status = 200 /\ resp.walletAddress \in WellFormed)
       => /\ RecordKey(resp.walletAddress) \in DOMAIN users
          /\ users[RecordKey(resp.walletAddress)].nonce = resp.message.nonce
  /\ (resp.op = "verify" /\ resp.status = 200 /\ resp.walletAddress \in WellFormed)
       => /\ resp.user.walletAddress = RecordKey(resp.walletAddress)
          /\ resp.token.walletAddress = RecordKey(resp.walletAddress)
  /\ \A a \in WellFormed :
       /\ findUnique(toLowerCase(a)) = findUnique(RecordKey(a))
       /\ \A m \in Msgs : \A g \in {BadSig, Sign("keyA", m), Sign("keyB", m)} :
            VerifyChecks(a, m, g, TRUE) = VerifyChecks(RecordKey(a), m, g, TRUE)

\* C7 (as stated): strings that differ only in letter case read and write
\* the same record, no two records have addresses equal after lowercasing,
\* and a string the routes reject has no case variant that they accept.
C7_AnyCaseAccepted ==
  /\ SameRecordForVariants
  /\ resp.error = "InvalidAddress"
       => \A b \in AddrForms :
            EqualIgnoringCase(resp.walletAddress, b) => ~isAddress(b)

\* C7 (amended): the lower-case form, the form with an upper-case body and
\* the checksummed form of an address are all accepted and read and write
\* the one record stored under the lower-case form; a mixed-case form with
\* a wrong checksum and a form with the prefix 0X are rejected.
C7_CaseInsensitive ==
  /\ SameRecordForVariants
  /\ \A a \in WellFormed : isAddress(a)
  /\ ~isAddress(AddrBadChecksum) /\ ~isAddress(AddrUpperPrefix)
  /\ EqualIgnoringCase(AddrBadChecksum, AddrLower)
  /\ EqualIgnoringCase(AddrUpperPrefix, AddrLower)

C7_Witness ==
  /\ resp.op = "verify"
  /\ resp.status = 200
  /\ resp.walletAddress = AddrUpper
  /\ resp.user.walletAddress = AddrLower
  /\ DOMAIN users = {AddrLower}

\* C3: a verify answered with anything but the success response has left
\* every identity record as it was before the request.
C3_NoPartialChange ==
  (resp.op = "verify" /\ resp.status # 200) => ~resp.wrote

\* C5: a verify that succeeds stores isVerified = true, lastLogin = now and
\* a nonce different from the one the message was checked against.
C5_CommitRotates ==
  [][\A s \in Slots, n \in 0..MaxNonce :
       (VerifyCommit(s, n, TRUE) /\ resp'.status = 200)
         => LET k == RecordKey(inflight[s].walletAddress) IN
            /\ users'[k].isVerified
            /\ users'[k].lastLogin = now
            /\ users'[k].nonce # inflight[s].nonce]_vars

\* C4 (as stated): no two successful verifies for a record had read the
\* same nonce write.
C4_OneSuccessPerNonce ==
  \A k \in StoreKeys : \A i \in DOMAIN won[k], j \in DOMAIN won[k] :
    i # j => won[k][i].rv # won[k][j].rv

\* C4 (amended): of the successful verifies that had read the same nonce
\* write, at most one applied its update while that write was still the
\* last one to the record; every other one had been overtaken by the
\* update of a concurrent verify.
C4_OneCleanSuccessPerNonce ==
  \A k \in StoreKeys : \A i \in DOMAIN won[k], j \in DOMAIN won[k] :
    (i # j /\ won[k][i].rv = won[k][j].rv)
      => ~(won[k][i].clean /\ won[k][j].clean)

C4_Witness ==
  \E k \in StoreKeys : \E i \in DOMAIN won[k], j \in DOMAIN won[k] :
    /\ i < j
    /\ won[k][i].rv = won[k][j].rv
    /\ won[k][i].clean
    /\ ~won[k][j].clean

\* C2: once a verify with address A, message M and signature S has
\* succeeded, a later verify with the same A, M and S is answered 400
\* NonceMismatch.
C2_NonceSingleUse ==
  [][\A s \in Slots, a \in AddrForms :
       LET u == consumed[RecordKey(a)] IN
       ( /\ isAddress(a)
         /\ u # NoUse
         /\ u.walletAddress = a
         /\ VerifyRead(s, a, u.msg, Sign(OwnerOf(a), u.msg), TRUE) )
         => /\ resp'.status = 400
            /\ resp'.error = "NonceMismatch"
            /\ inflight' = inflight]_vars

\* C1: after the nonce route has answered 200 for an address it accepts,
\* a verify with that address, the returned message and the signature of
\* the owner over it passes the checks, and its update is answered 200 with
\* a token and leaves isVerified = true (no store or token fault).
C1_RoundTrip ==
  [][/\ \A s \in Slots, a \in AddrForms :
          LET m == challenge[RecordKey(a)] IN
          ( /\ isAddress(a)
            /\ m # NoMsg
            /\ VerifyRead(s, a, m, Sign(OwnerOf(a), m), TRUE) )
            => inflight'[s].pc = "update"
     /\ \A s \in Slots, n \in 0..MaxNonce :
          (jwtOk /\ VerifyCommit(s, n, TRUE))
            => /\ resp'.status = 200
               /\ resp'.token # NoToken
               /\ users'[RecordKey(inflight[s].walletAddress)].isVerified]_vars

\* C10: a failed verify leaves the record as it was, and after failed
\* verifies for an address a verify with the message last issued for it
\* and the signature of the owner still passes the checks.
C10_RetryAfterFailure ==
  [][/\ (resp'.op = "verify" /\ resp'.status \in {400, 401}) => users' = users
     /\ \A s \in Slots, a \in AddrForms :
          LET m == challenge[RecordKey(a)] IN
          ( /\ isAddress(a)
            /\ m # NoMsg
            /\ failedSince[RecordKey(a)]
            /\ VerifyRead(s, a, m, Sign(OwnerOf(a), m), TRUE) )
            => inflight'[s].pc = "update"]_vars

\* C11: no step of nonce issue, verify, refresh, profile update, logout or
\* cleanup removes an identity record: the addresses that have a record
\* before the step have one after it.
C11_RecordsStay ==
  [][DOMAIN users \subseteq DOMAIN users']_vars

C11_Witness ==
  /\ unverifiedOld(now - Day) # {}
  /\ resp.op = "nonce"
  /\ resp.status = 200

\* C12: every error response of the nonce and verify routes has a 4xx
\* status and a code in its body, a storage error included.
C12_ErrorsAre4xxWithCode ==
  (resp.op \in {"nonce", "verify"} /\ resp.error # "none")
    => /\ resp.status \in 400..499
       /\ "code" \in DOMAIN ErrorBody(resp.op, resp.error)

\* The needle occurs in the text.
Occurs(needle, text) ==
  \E i \in 1..(Len(text) - Len(needle) + 1) :
    SubSeq(text, i, i + Len(needle) - 1) = needle

\* What the order of the checks gives for a verify request, as the error
\* of the first check that fails.
FirstFailure(a, m, g) ==
  IF a = Missing \/ g = NoSig \/ m = NoMsg THEN <<400, "MissingFields">>
  ELSE IF a \notin WellFormed THEN <<400, "InvalidAddress">>
  ELSE IF RecordKey(a) \notin DOMAIN users THEN <<404, "NotFound">>
  ELSE IF ~Occurs(users[RecordKey(a)].nonce, MessageText(m))
  THEN <<400, "NonceMismatch">>
  ELSE IF g.form # "ok" THEN <<401, "SignatureError">>
  ELSE IF g.msg # m \/ g.signer # OwnerOf(a) THEN <<401, "INVALID_SIGNATURE">>
  ELSE <<0, "none">>

\* C13: verify answers with the first check that fails, in the order
\* missing field (400), malformed address (400), no record (404), nonce not
\* in the message (400), signature (401); the store is not read for a
\* malformed address and the signature is not recovered for an unknown
\* address or a stale nonce.
C13_CheckOrder ==
  \A a \in Prefixed, m \in {x \in Msgs : x.ts <= now} \cup {NoMsg} :
    \A g \in {NoSig, BadSig, Sign("keyA", m), Sign("keyB", m),
              Sign("keyA", OtherMsg)} :
      LET out == VerifyChecks(a, m, g, TRUE) IN
      /\ <<out.status, out.error>> = FirstFailure(a, m, g)
      /\ out.status = 400 /\ out.error # "NonceMismatch" => out.calls = <<>>
      /\ out.error \in {"NotFound", "NonceMismatch"} => out.calls = <<"findUnique">>

C13_Witness ==
  /\ resp.op = "verify"
  /\ resp.status = 400
  /\ resp.error = "NonceMismatch"
  /\ resp.calls = <<"findUnique">>

\* C14: for a record and a message that passes the nonce check, the
\* response to a malformed signature and the response to a signature of
\* another key have the same status and the same body.
C14_UniformSignatureError ==
  \A a \in WellFormed, m \in Msgs :
    LET thrown == VerifyChecks(a, m, BadSig, TRUE)
        other == VerifyChecks(a, m, Sign("keyB", m), TRUE)
    IN (thrown.status = 401 /\ other.status = 401)
         => ErrorBody("verify", thrown.error) = ErrorBody("verify", other.error)

\* C15: once the nonce route has replaced the nonce of a record by another
\* value, a verify with the message issued for the replaced nonce, signed
\* by the owner, is answered NonceMismatch.
C15_ReplacedNonceRejected ==
  [][\A a \in WellFormed, old \in Msgs :
       LET k == RecordKey(a) IN
       ( /\ challenge[k] = old
         /\ challenge'[k] # NoMsg
         /\ challenge'[k].nonce # old.nonce )
         => VerifyChecks(a, old, Sign(OwnerOf(a), old), TRUE)'.error
              = "NonceMismatch"]_vars

\* C16: a nonce issue that the store serves creates a record with
\* isVerified = false when the address has none, and else replaces the
\* nonce and leaves isVerified, lastLogin and email as they were; the
\* stored nonce is the nonce of the response, and no other record changes.
C16_NonceIssueEffect ==
  [][\A n \in Draws :
       LET a == resp'.walletAddress
           k == RecordKey(a)
       IN (resp'.op = "nonce" /\ a \in WellFormed /\ GetNonce(a, n, TRUE))
            => /\ resp'.status = 200
               /\ k \in DOMAIN users'
               /\ users'[k].nonce = resp'.message.nonce
               /\ users'[k].nonce = generateNonce(
                    CHOOSE r \in Random : FloorRandom(r) = n)
               /\ k \notin DOMAIN users
                    => /\ ~users'[k].isVerified
                       /\ users'[k].walletAddress = k
               /\ k \in DOMAIN users
                    => /\ users'[k].isVerified = users[k].isVerified
                       /\ users'[k].lastLogin = users[k].lastLogin
                       /\ users'[k].email = users[k].email
               /\ \A x \in DOMAIN users : x # k => users'[x] = users[x]]_vars

C16_Witness ==
  /\ resp.op = "nonce"
  /\ resp.status = 200
  /\ AddrLower \in DOMAIN users
  /\ users[AddrLower].isVerified
  /\ users[AddrLower].email = GoodEmail
  /\ users[AddrLower].nonce = resp.message.nonce

\* C17: the token of a successful verify carries the lower-cased address of
\* the request, which is the walletAddress of the record just updated, the
\* time of issuance and a later expiry; with JWT_EXPIRES_IN unset the expiry
\* is exactly one day (24 hours) after issuance.
C17_TokenBinds ==
  (resp.op = "verify" /\ resp.status = 200)
    => /\ resp.token.walletAddress = RecordKey(resp.walletAddress)
       /\ resp.token.walletAddress = resp.user.walletAddress
       /\ resp.token.walletAddress \in DOMAIN users
       /\ users[resp.token.walletAddress].walletAddress = resp.token.walletAddress
       /\ resp.user.isVerified
       /\ resp.token.timestamp = resp.user.lastLogin
       /\ resp.token.iat = resp.token.timestamp
       /\ resp.token.exp > resp.token.iat
       /\ expiresIn = Unset => resp.token.exp = resp.token.iat + Day
C17_Witness ==
  /\ resp.op = "verify" /\ resp.status = 200
  /\ resp.walletAddress = AddrChecksum /\ AddrChecksum # AddrLower
  /\ expiresIn = Unset
  /\ resp.token.iat > 0

\* The integer a string of decimal digits writes.
DigitValue(c) == CHOOSE d \in 0..9 : DigitChar(d) = c
RECURSIVE ValueOf(_)
ValueOf(s) ==
  IF Len(s) = 0 THEN 0
  ELSE 10 * ValueOf(SubSeq(s, 1, Len(s) - 1)) + DigitValue(s[Len(s)])
\* s is the decimal string of n: digits only, no leading zero, value n.
IsDecimalOf(s, n) ==
  /\ Len(s) > 0
  /\ \A i \in 1..Len(s) : \E d \in 0..9 : s[i] = DigitChar(d)
  /\ Len(s) > 1 => s[1] # "0"
  /\ ValueOf(s) = n

\* C18: every nonce generateNonce produces, and so every nonce stored or
\* sent, is the decimal string of an integer of 0..MaxNonce (the scaled
\* 0..999999), and every integer of that range is produced by some value
\* of Math.random(), so the nonce space has MaxNonce + 1 distinct values.
C18_NonceRange ==
  /\ \A r \in Random : \E n \in 0..MaxNonce : IsDecimalOf(generateNonce(r), n)
  /\ \A n \in 0..MaxNonce : \E r \in Random : IsDecimalOf(generateNonce(r), n)
  /\ Cardinality({generateNonce(r) : r \in Random}) = MaxNonce + 1
  /\ \A k \in DOMAIN users :
       \E n \in 0..MaxNonce : IsDecimalOf(users[k].nonce, n)
  /\ (resp.op = "nonce" /\ resp.status = 200)
       => \E n \in 0..MaxNonce : IsDecimalOf(resp.message.nonce, n)
C18_Witness ==
  /\ resp.op = "nonce" /\ resp.status = 200
  /\ IsDecimalOf(resp.message.nonce, MaxNonce)
  /\ \E k \in DOMAIN users : users[k].nonce = resp.message.nonce

\* C19: once authenticateUser has sent its verify request, the message of
\* the request is the text the wallet signed, that text is the challenge
\* message of the nonce response, and the request has the three fields the
\* route requires.
C19_SendsSignedChallenge ==
  client.sent # NoBody
    => /\ client.signature = Sign(OwnerOf(ClientAddress), client.message)
       /\ client.sent.signature = client.signature
       /\ client.sent.message = client.message
       /\ MessageText(client.message) = MessageText(client.nonceResponse)
       /\ VerifyChecks(client.sent.walletAddress, client.sent.message,
                       client.sent.signature, TRUE).error # "MissingFields"

\* C20: for every successful verify response, authenticateUser settled with
\* it leaves in localStorage 'auth_token' the access token of the response,
\* and the request interceptor sends that token as the bearer credential.
C20_StoresAccessToken ==
  (resp.op = "verify" /\ resp.status = 200)
    => /\ AfterVerify(client, resp).authToken = Jwt(resp.token)
       /\ Authorization(AfterVerify(client, resp).authToken) = Jwt(resp.token)

C22_ChallengeKept ==
  /\ \A k \in DOMAIN users :
       challenge[k] # NoMsg => users[k].nonce = challenge[k].nonce
  /\ (resp.op = "verify" /\ resp.class = "honest")
       => resp.error # "NonceMismatch"

\* C23: a run of cleanupOldData deletes no user and changes no isVerified;
\* a record it changes was unverified and created more than a day (24
\* hours) before, and only its nonce differs; all records it changes get
\* the same nonce; a file it deletes was temporary and created more than
\* seven days before, and it adds none.
C23_CleanupFrame ==
  [][(/\ resp' = resp /\ now' = now
      /\ \E n \in Draws, usersOk \in BOOLEAN, filesOk \in BOOLEAN :
           cleanupOldData(n, usersOk, filesOk))
       => /\ DOMAIN users' = DOMAIN users
          /\ \A x \in DOMAIN users :
               /\ users'[x].isVerified = users[x].isVerified
               /\ users'[x] # users[x]
                    => /\ ~users[x].isVerified
                       /\ users[x].createdAt < now - Day
                       /\ users'[x] = [users[x] EXCEPT !.nonce = users'[x].nonce]
          /\ \A x, y \in DOMAIN users :
               (users'[x] # users[x] /\ users'[y] # users[y])
                 => users'[x].nonce = users'[y].nonce
          /\ files' \subseteq files
          /\ \A f \in files \ files' :
               f.isTemporary /\ f.createdAt < now - 7 * Day]_vars
C23_Witness ==
  /\ files # {} /\ \A f \in files : ~f.isTemporary
  /\ {AddrLower, AddrNoPrefix} \subseteq DOMAIN users
  /\ users[AddrLower].createdAt < now - Day
  /\ users[AddrNoPrefix].createdAt < now - Day
  /\ users[AddrLower].nonce = users[AddrNoPrefix].nonce
  /\ resp.op = "nonce" /\ resp.status = 200
  /\ resp.message.nonce # users[RecordKey(resp.walletAddress)].nonce
  /\ users[OtherKey] = VerifiedBefore[OtherKey]

\* C24: a record that has isVerified = true keeps it in every later state,
\* and a record gets isVerified = true only in a step in which a verify for
\* its address succeeds.
C24_VerifiedOnceAndOnlyByVerify ==
  [][\A k \in DOMAIN users' :
       /\ (k \in DOMAIN users /\ users[k].isVerified) => users'[k].isVerified
       /\ (users'[k].isVerified /\ ~(k \in DOMAIN users /\ users[k].isVerified))
            => /\ resp'.op = "verify" /\ resp'.status = 200
               /\ RecordKey(resp'.walletAddress) = k]_vars

\* C26: a profile update whose e-mail a different user holds is answered
\* 409 and changes nothing, unless the store is down; and no two records
\* hold the same e-mail.
C26_EmailUnique ==
  /\ (/\ resp.op = "profile" /\ resp.email # NoEmail
      /\ resp.error # "ServerError"
      /\ \E x \in DOMAIN users :
           x # resp.walletAddress /\ users[x].email = resp.email)
       => (resp.status = 409 /\ ~resp.wrote)
  /\ \A x, y \in DOMAIN users :
       (x # y /\ users[x].email # NoEmail) => users[x].email # users[y].email

\* C27: connectDatabase(retries) comes to an end, makes at most `retries`
\* attempts, returns right after the first attempt that succeeds and makes
\* none after it, exits with code 1 after the last failed attempt without
\* another wait, and waits between failed attempts, each wait at least as
\* long as the one before.
C27_ConnectState ==
  LET t == proc.tries
      w == proc.waits
      failures == {j \in 1..Len(t) : t[j] # "ok"}
      left == proc.pc \notin {"start", "connect", "wait"}
      returned == left /\ ~(proc.exit = 1 /\ ~proc.routes)
      gaveUp == left /\ ~returned /\ missingEnvVars(proc.env) = {}
  IN
  /\ Len(t) <= proc.retries
  /\ \A j \in 1..Len(t) : t[j] = "ok" => j = Len(t)
  /\ (returned /\ proc.retries > 0) => (t # <<>> /\ t[Len(t)] = "ok")
  /\ (proc.pc = "mount" /\ t # <<>>) => Len(w) = Len(t) - 1
  /\ gaveUp => (/\ Len(t) = proc.retries /\ failures = 1..Len(t)
                /\ Len(w) = Len(t) - 1)
  /\ Len(w) = Cardinality(failures) - (IF proc.pc = "wait" \/ gaveUp
                                         THEN 1 ELSE 0)
  /\ \A j \in 1..Len(w) : w[j] > 0 /\ (j > 1 => w[j - 1] <= w[j])
C27_ConnectEnds ==
  []C27_ConnectState /\ <>(proc.pc \notin {"start", "connect", "wait"})
C27_Witness ==
  /\ proc.retries = DefaultRetries
  /\ proc.exit = 1
  /\ proc.tries = <<"connect", "query", "connect">>
  /\ proc.waits = <<Second, 2 * Second>>

\* C28: the server listens only with JWT_SECRET and DATABASE_URL set and
\* after a connection attempt that succeeded; with either variable missing
\* the process exits with code 1 and registers no route; the cleanup timer
\* is started only in a process that connected.
C28_StartupOrder ==
  LET missing == ~proc.env.JWT_SECRET \/ ~proc.env.DATABASE_URL
      connected == \E j \in 1..Len(proc.tries) : proc.tries[j] = "ok"
  IN
  /\ proc.http # "none" => (~missing /\ connected /\ proc.routes)
  /\ missing => (/\ ~proc.routes
                 /\ proc.tries = <<>>
                 /\ proc.pc \in {"start", "exited"}
                 /\ proc.pc = "exited" => proc.exit = 1)
  /\ proc.timer => connected
  /\ (proc.exit = 1 /\ ~connected) => (~proc.routes /\ ~proc.timer)
C28_Witness ==
  /\ proc.pc = "up"
  /\ proc.http = "listening"
  /\ proc.timer
  /\ proc.tries = <<"query", "ok">>

\* C30: the process exits with code 0 only after the callback of
\* server.close has run and the database is disconnected, and no request
\* is being served when the database is disconnected.
C30_GracefulShutdown ==
  /\ proc.exit = 0 => (proc.closed /\ proc.db = "disconnected")
  /\ proc.db = "disconnected" => proc.serving = 0

\* C29: a fileUpload record is written only by an upload of an
\* authenticated request with a non-empty file whose first bytes are the
\* signature of its type and, with WEB3_STORAGE_TOKEN set, only after the
\* put succeeded; the record's ipfsHash is the CID the put returned, or
\* null without a token; a failed put is answered 500 with no record.
C29_UploadWrites ==
  [][LET u == resp'.upload
         f == u.file
         sig == signatures(f.mimetype)
         tokenSet == proc.env.WEB3_STORAGE_TOKEN
     IN
     /\ files' # files =>
          /\ resp'.op = "upload" /\ resp'.status = 200
          /\ u.authenticated
          /\ \E k \in StoreKeys : k = resp'.walletAddress /\ Bearer(k)
          /\ f # NoFile /\ Len(f.buffer) > 0
          /\ Len(f.buffer) >= Len(sig)
          /\ SubSeq(f.buffer, 1, Len(sig)) = sig
          /\ tokenSet => (resp'.calls = <<"put", "create">> /\ u.put \in Cids)
          /\ ~tokenSet => (resp'.calls = <<"create">> /\ u.put = "none")
          /\ \E r \in files' \ files :
               /\ files' = files \cup {r}
               /\ r.ipfsHash = IF tokenSet THEN u.put ELSE "null"
               /\ r.uploadedBy = resp'.walletAddress
     /\ (resp'.op = "upload" /\ u.put = "failed") =>
          (resp'.status = 500 /\ files' = files)
    ]_vars
C29_Witness ==
  /\ resp.op = "upload" /\ resp.status = 200
  /\ proc.env.WEB3_STORAGE_TOKEN
  /\ resp.upload.put = "cidB"
  /\ \E r \in files \ OldUploads : r.ipfsHash = "cidB"

====
